---------------------------- MODULE Spec2Model ----------------------------
(***************************************************************************)
(* Model of the dive-safety risk engine (app.py: SafetyPolicy, RiskEngine) *)
(* and of the /realtime and /forecast request flows with the Open-Meteo    *)
(* client (divewise_weather.py).                                           *)
(*                                                                         *)
(* Physical quantities (km/h, mm, m, s, degrees C) are fixed-point         *)
(* integers in thousandths of the unit: 25 km/h is 25000, 1.2 m is 1200.   *)
(* Weather codes are plain integers.                                       *)
(*                                                                         *)
(* A Python value is a record [t, v]: t = "none" for None or a missing     *)
(* key, t = "num" for an int/float with value v, t = "str" for a non-empty *)
(* string (any truthy non-numeric value behaves the same way here).        *)
(* A dict is a function from its keys; a missing key is a key outside the  *)
(* DOMAIN.  An optional int (the verdict's score) is a sequence of length  *)
(* 0 (None) or 1.                                                          *)
(***************************************************************************)
EXTENDS Integers, Sequences, FiniteSets, TLC

VARIABLES
    pc,           \* position of the call / request
    call,         \* "realtime" or "forecast"
    input,        \* the reading or forecast handed to the engine
    fog_policy,   \* "score" | "warn" | "caution"
    reasons,      \* the engine's local list `reasons` at return (before _dedupe)
    tips,         \* the engine's local list `tips` at return (before _dedupe)
    hours,        \* number of hours of the hourly loop that were entered
    verdict,      \* value returned by the engine
    req,          \* the HTTP request being served
    fetch,        \* outcome of the primary (weather) fetch
    http,         \* status code of the HTTP response (0: none yet)
    engine_calls  \* number of times the handler invoked the risk engine

vars == <<pc, call, input, fog_policy, reasons, tips, hours, verdict,
          req, fetch, http, engine_calls>>

--------------------------------------------------------------------------
(* Bounds *)

MaxHours == 3

--------------------------------------------------------------------------
(* Python values *)

None == [t |-> "none", v |-> 0]

Num(x) == [t |-> "num", v |-> x]

Str == [t |-> "str", v |-> 0]

EmptyDict == <<>>

\* dict.get(k): None when the key is missing
Get(d, k) == IF k \in DOMAIN d THEN d[k] ELSE None

\* isinstance(x, (int, float))
IsNumber(x) == x.t = "num"

\* `x or 0.0`: None and a numeric zero are falsy, a non-empty string is kept
OrZero(x) ==
    IF x.t = "none" \/ (x.t = "num" /\ x.v = 0) THEN Num(0) ELSE x

\* round-half-even of x/d, which is what '%.Nf' does on an exactly
\* representable value
RoundHalfEven(x, d) ==
    LET q == x \div d
        r == x % d
    IN  IF 2 * r < d THEN q
        ELSE IF 2 * r > d THEN q + 1
        ELSE IF q % 2 = 0 THEN q ELSE q + 1

\* f"{x:.0f}", f"{x:.1f}", f"{x:.2f}": the number printed, in units,
\* tenths and hundredths
Fmt0(x) == RoundHalfEven(x, 1000)

Fmt1(x) == RoundHalfEven(x, 100)

Fmt2(x) == RoundHalfEven(x, 10)

\* A formatted message: the template and the numbers printed into it.
\* Two messages are the same Python string iff the records are equal.
Msg(k, a, b) == [k |-> k, a |-> a, b |-> b]

--------------------------------------------------------------------------
(* SafetyPolicy *)

SafetyPolicy ==
    [ thunderstorm_hard_stop |-> TRUE,
      wind_mod |-> 20000, wind_strong |-> 30000,
      gust_mod |-> 35000, gust_strong |-> 45000,
      precip_mod |-> 2000, precip_heavy |-> 5000,
      wave_moderate |-> 1000, wave_elevated |-> 1500, wave_high |-> 2000,
      swell_notable |-> 1500, swell_large |-> 2000, long_period_s |-> 10000,
      score_fog_realtime |-> 10, score_fog_forecast |-> 20,
      score_wind_strong |-> 40, score_wind_mod |-> 15,
      score_precip_heavy |-> 10, score_precip_mod |-> 5,
      score_wave_high |-> 50, score_wave_elevated |-> 20,
      score_wave_moderate |-> 8,
      score_swell_large |-> 40, score_swell_notable |-> 15,
      score_surge_long_period |-> 10, score_missing_waves |-> 5,
      band_caution_min |-> 20, band_unsafe_min |-> 60 ]

REALTIME_POLICY == SafetyPolicy

FORECAST_POLICY == SafetyPolicy

FogPolicy == {"score", "warn", "caution"}

ThunderCodes == {95, 96, 99}

FogCodes == {45, 48}

\* `code in (95, 96, 99)` / `code in (45, 48)`: False for None and strings
CodeIn(code, S) == code.t = "num" /\ code.v \in S

--------------------------------------------------------------------------
(* RiskEngine helpers *)

_map_status(score, hard_unsafe, policy) ==
    IF hard_unsafe THEN "Unsafe"
    ELSE IF score >= policy.band_unsafe_min THEN "Unsafe"
    ELSE IF score >= policy.band_caution_min THEN "Caution"
    ELSE "Safe"

RECURSIVE DedupeFrom(_, _, _)
DedupeFrom(seq, i, out) ==
    IF i > Len(seq) THEN out
    ELSE IF \E j \in 1..Len(out) : out[j] = seq[i]
         THEN DedupeFrom(seq, i + 1, out)
         ELSE DedupeFrom(seq, i + 1, Append(out, seq[i]))

\* Variant: the last occurrence of each string is kept
RECURSIVE KeepLastFrom(_, _, _)
KeepLastFrom(seq, i, out) ==
    IF i > Len(seq) THEN out
    ELSE IF \E j \in (i + 1)..Len(seq) : seq[j] = seq[i]
         THEN KeepLastFrom(seq, i + 1, out)
         ELSE KeepLastFrom(seq, i + 1, Append(out, seq[i]))

_dedupe_KeepLast(seq) == KeepLastFrom(seq, 1, <<>>)

_dedupe(seq) == DedupeFrom(seq, 1, <<>>)

\* The engine's locals: score, reasons, tips, hard_unsafe; `hours` counts the
\* iterations of the hourly loop entered; `raised` records that a Python
\* exception (TypeError / ValueError) left the function.
Locals0 ==
    [ score |-> 0, reasons |-> <<>>, tips |-> <<>>, hard_unsafe |-> FALSE,
      hours |-> 0, raised |-> FALSE ]

Raise(st) == [st EXCEPT !.raised = TRUE]

AddReason(st, m) == [st EXCEPT !.reasons = Append(@, m)]

AddTip(st, m) == [st EXCEPT !.tips = Append(@, m)]

AddScore(st, n) == [st EXCEPT !.score = @ + n]

\* (a or 0.0) + (b or 0.0): str + float raises TypeError
PrecipSum(a, b) ==
    LET x == OrZero(a)
        y == OrZero(b)
    IN  IF IsNumber(x) /\ IsNumber(y) THEN Num(x.v + y.v) ELSE Str

--------------------------------------------------------------------------
(* RiskEngine.assess_realtime, rule by rule *)

\* Variant: only the plain thunderstorm code 95 is recognised
RealtimeThunderstorm_Only95(st, code, policy) ==
    IF policy.thunderstorm_hard_stop /\ CodeIn(code, {95})
    THEN [AddReason(st, Msg("Thunderstorm in area (lightning risk).", 0, 0))
            EXCEPT !.hard_unsafe = TRUE]
    ELSE st

RealtimeThunderstorm(st, code, policy) ==
    IF policy.thunderstorm_hard_stop /\ CodeIn(code, ThunderCodes)
    THEN [AddReason(st, Msg("Thunderstorm in area (lightning risk).", 0, 0))
            EXCEPT !.hard_unsafe = TRUE]
    ELSE st

RealtimeFog(st, code, policy, fp) ==
    IF CodeIn(code, FogCodes)
    THEN LET s1 == AddTip(
                     AddReason(st, Msg("Fog reduces surface visibility", 0, 0)),
                     Msg("Use dive flag + SMB", 0, 0))
         IN  IF fp = "score" THEN AddScore(s1, policy.score_fog_realtime)
             ELSE IF fp = "caution"
                  THEN [s1 EXCEPT !.score =
                          IF @ >= policy.band_caution_min
                          THEN @ ELSE policy.band_caution_min]
                  ELSE s1
    ELSE st

\* Variant: the strong tier adds the moderate weight
RealtimeWind_StrongAsModerate(st, wind, gust, policy) ==
    IF st.raised THEN st
    ELSE IF ~IsNumber(wind) \/ ~IsNumber(gust) THEN Raise(st)
    ELSE IF wind.v >= policy.wind_strong \/ gust.v >= policy.gust_strong
    THEN AddScore(
           AddTip(
             AddReason(st, Msg("Strong wind/gusts (a/b km/h).",
                               Fmt0(wind.v), Fmt0(gust.v))),
             Msg("Expect chop; consider sheltered site or postponing.", 0, 0)),
           policy.score_wind_mod)
    ELSE IF wind.v >= policy.wind_mod \/ gust.v >= policy.gust_mod
    THEN AddScore(
           AddTip(
             AddReason(st, Msg("Moderate wind/gusts (a/b km/h).",
                               Fmt0(wind.v), Fmt0(gust.v))),
             Msg("Prefer protected entry/exit; monitor drift.", 0, 0)),
           policy.score_wind_mod)
    ELSE st

\* A string in wind or gust raises: TypeError at `>=`, or ValueError at
\* the ':.0f' of the reason when the other operand short-circuited the `or`.
RealtimeWind(st, wind, gust, policy) ==
    IF st.raised THEN st
    ELSE IF ~IsNumber(wind) \/ ~IsNumber(gust) THEN Raise(st)
    ELSE IF wind.v >= policy.wind_strong \/ gust.v >= policy.gust_strong
    THEN AddScore(
           AddTip(
             AddReason(st, Msg("Strong wind/gusts (a/b km/h).",
                               Fmt0(wind.v), Fmt0(gust.v))),
             Msg("Expect chop; consider sheltered site or postponing.", 0, 0)),
           policy.score_wind_strong)
    ELSE IF wind.v >= policy.wind_mod \/ gust.v >= policy.gust_mod
    THEN AddScore(
           AddTip(
             AddReason(st, Msg("Moderate wind/gusts (a/b km/h).",
                               Fmt0(wind.v), Fmt0(gust.v))),
             Msg("Prefer protected entry/exit; monitor drift.", 0, 0)),
           policy.score_wind_mod)
    ELSE st

RealtimePrecip(st, precip, policy) ==
    IF st.raised THEN st
    ELSE IF precip.v >= policy.precip_heavy
    THEN AddScore(AddReason(st, Msg("Heavy rain (a mm/hr) may reduce vis/runoff.",
                                    Fmt1(precip.v), 0)),
                  policy.score_precip_heavy)
    ELSE IF precip.v >= policy.precip_mod
    THEN AddScore(AddReason(st, Msg("Moderate rain (a mm/hr).",
                                    Fmt1(precip.v), 0)),
                  policy.score_precip_mod)
    ELSE st

\* Variant: the moderate tier adds the elevated weight
RealtimeWaves_WrongWeight(st, wave_h, policy) ==
    IF st.raised THEN st
    ELSE IF IsNumber(wave_h)
    THEN IF wave_h.v > policy.wave_high
         THEN AddScore(
                AddTip(AddReason(st, Msg("High waves (a m)", Fmt2(wave_h.v), 0)),
                       Msg("Postpone or choose very sheltered site.", 0, 0)),
                policy.score_wave_high)
         ELSE IF wave_h.v > policy.wave_elevated
         THEN AddScore(
                AddTip(AddReason(st, Msg("Elevated waves (a m).",
                                         Fmt2(wave_h.v), 0)),
                       Msg("Assess surge at entry; plan alternate exits.", 0, 0)),
                policy.score_wave_elevated)
         ELSE IF wave_h.v > policy.wave_moderate
         THEN AddScore(AddReason(st, Msg("Moderate waves (a m).",
                                         Fmt2(wave_h.v), 0)),
                       policy.score_wave_elevated)
         ELSE st
    ELSE AddScore(AddReason(st, Msg("Wave height unavailable", 0, 0)),
                  policy.score_missing_waves)

\* Variant: the wave tiers compare with >= instead of >
RealtimeWaves_Ge(st, wave_h, policy) ==
    IF st.raised THEN st
    ELSE IF IsNumber(wave_h)
    THEN IF wave_h.v >= policy.wave_high
         THEN AddScore(
                AddTip(AddReason(st, Msg("High waves (a m)", Fmt2(wave_h.v), 0)),
                       Msg("Postpone or choose very sheltered site.", 0, 0)),
                policy.score_wave_high)
         ELSE IF wave_h.v >= policy.wave_elevated
         THEN AddScore(
                AddTip(AddReason(st, Msg("Elevated waves (a m).",
                                         Fmt2(wave_h.v), 0)),
                       Msg("Assess surge at entry; plan alternate exits.", 0, 0)),
                policy.score_wave_elevated)
         ELSE IF wave_h.v >= policy.wave_moderate
         THEN AddScore(AddReason(st, Msg("Moderate waves (a m).",
                                         Fmt2(wave_h.v), 0)),
                       policy.score_wave_moderate)
         ELSE st
    ELSE AddScore(AddReason(st, Msg("Wave height unavailable", 0, 0)),
                  policy.score_missing_waves)

RealtimeWaves(st, wave_h, policy) ==
    IF st.raised THEN st
    ELSE IF IsNumber(wave_h)
    THEN IF wave_h.v > policy.wave_high
         THEN AddScore(
                AddTip(AddReason(st, Msg("High waves (a m)", Fmt2(wave_h.v), 0)),
                       Msg("Postpone or choose very sheltered site.", 0, 0)),
                policy.score_wave_high)
         ELSE IF wave_h.v > policy.wave_elevated
         THEN AddScore(
                AddTip(AddReason(st, Msg("Elevated waves (a m).",
                                         Fmt2(wave_h.v), 0)),
                       Msg("Assess surge at entry; plan alternate exits.", 0, 0)),
                policy.score_wave_elevated)
         ELSE IF wave_h.v > policy.wave_moderate
         THEN AddScore(AddReason(st, Msg("Moderate waves (a m).",
                                         Fmt2(wave_h.v), 0)),
                       policy.score_wave_moderate)
         ELSE st
    ELSE AddScore(AddReason(st, Msg("Wave height unavailable", 0, 0)),
                  policy.score_missing_waves)

\* Variant: the rule runs as soon as the swell height is numeric
RealtimeSwell_HeightOnly(st, swell_h, swell_p, policy) ==
    IF st.raised THEN st
    ELSE IF IsNumber(swell_h)
    THEN IF swell_h.v >= policy.swell_large
         THEN AddScore(AddReason(st, Msg("Large swell (a m @ bs).",
                                         Fmt2(swell_h.v), Fmt0(swell_p.v))),
                       policy.score_swell_large)
         ELSE IF swell_h.v >= policy.swell_notable
         THEN AddScore(AddReason(st, Msg("Notable swell (a m @ bs).",
                                         Fmt2(swell_h.v), Fmt0(swell_p.v))),
                       policy.score_swell_notable)
         ELSE IF swell_h.v >= 1000 /\ swell_p.v >= policy.long_period_s
         THEN AddScore(AddReason(st, Msg("Long-period swell (a m @ bs)",
                                         Fmt2(swell_h.v), Fmt0(swell_p.v))),
                       policy.score_surge_long_period)
         ELSE st
    ELSE st

RealtimeSwell(st, swell_h, swell_p, policy) ==
    IF st.raised THEN st
    ELSE IF IsNumber(swell_h) /\ IsNumber(swell_p)
    THEN IF swell_h.v >= policy.swell_large
         THEN AddScore(AddReason(st, Msg("Large swell (a m @ bs).",
                                         Fmt2(swell_h.v), Fmt0(swell_p.v))),
                       policy.score_swell_large)
         ELSE IF swell_h.v >= policy.swell_notable
         THEN AddScore(AddReason(st, Msg("Notable swell (a m @ bs).",
                                         Fmt2(swell_h.v), Fmt0(swell_p.v))),
                       policy.score_swell_notable)
         ELSE IF swell_h.v >= 1000 /\ swell_p.v >= policy.long_period_s
         THEN AddScore(AddReason(st, Msg("Long-period swell (a m @ bs)",
                                         Fmt2(swell_h.v), Fmt0(swell_p.v))),
                       policy.score_surge_long_period)
         ELSE st
    ELSE st

RealtimeComfort(st, air_c) ==
    IF st.raised THEN st
    ELSE IF IsNumber(air_c) /\ air_c.v < 16000
    THEN AddTip(st, Msg("Cold air", 0, 0))
    ELSE st

\* Variant: the running total is reported also after a hard stop
Return_RunningTotal(st, policy) ==
    IF st.raised
    THEN [ raised |-> TRUE, status |-> "TypeError", score |-> <<>>,
           reasons |-> <<>>, tips |-> <<>> ]
    ELSE [ raised |-> FALSE,
           status |-> _map_status(st.score, st.hard_unsafe, policy),
           score |-> <<st.score>>,
           reasons |-> _dedupe(st.reasons),
           tips |-> _dedupe(st.tips) ]

\* The value returned: the verdict, or the exception that left the function
Return(st, policy) ==
    IF st.raised
    THEN [ raised |-> TRUE, status |-> "TypeError", score |-> <<>>,
           reasons |-> <<>>, tips |-> <<>> ]
    ELSE [ raised |-> FALSE,
           status |-> _map_status(st.score, st.hard_unsafe, policy),
           score |-> <<IF st.hard_unsafe THEN 100 ELSE st.score>>,
           reasons |-> _dedupe(st.reasons),
           tips |-> _dedupe(st.tips) ]

\* (reading or {}).get(name, {}) or {}
Section(reading, name) ==
    IF name \in DOMAIN reading THEN reading[name] ELSE EmptyDict

\* The locals of assess_realtime when it reaches its return statement
RealtimeLocals(reading, policy, fp) ==
    LET wx == Section(reading, "weather")
        sea == Section(reading, "marine")
        code == Get(wx, "weather_code")
        wind == OrZero(Get(wx, "wind_speed_10m_kmh"))
        gust == OrZero(Get(wx, "wind_gusts_10m_kmh"))
        precip == PrecipSum(Get(wx, "precipitation_mm"), Get(wx, "rain_mm"))
        s0 == IF IsNumber(precip) THEN Locals0 ELSE Raise(Locals0)
        s1 == IF s0.raised THEN s0 ELSE RealtimeThunderstorm(s0, code, policy)
        s2 == IF s1.raised THEN s1 ELSE RealtimeFog(s1, code, policy, fp)
        s3 == RealtimeWind(s2, wind, gust, policy)
        s4 == RealtimePrecip(s3, precip, policy)
        s5 == RealtimeWaves(s4, Get(sea, "wave_height_m"), policy)
        s6 == RealtimeSwell(s5, Get(sea, "swell_wave_height_m"),
                            Get(sea, "swell_wave_period_s"), policy)
    IN  RealtimeComfort(s6, Get(wx, "temperature_2m_c"))

assess_realtime(reading, policy, fp) ==
    Return(RealtimeLocals(reading, policy, fp), policy)

--------------------------------------------------------------------------
(* RiskEngine.assess_forecast *)

\* Variant: "caution" adds the caution minimum instead of raising to it
ForecastFog_Additive(st, code, policy, fp) ==
    IF CodeIn(code, FogCodes)
    THEN LET s1 == AddReason(st, Msg("Fog possible at some hours", 0, 0))
         IN  IF fp = "score" THEN AddScore(s1, policy.score_fog_forecast)
             ELSE IF fp = "caution"
                  THEN AddScore(s1, policy.band_caution_min)
                  ELSE s1
    ELSE st

ForecastFog(st, code, policy, fp) ==
    IF CodeIn(code, FogCodes)
    THEN LET s1 == AddReason(st, Msg("Fog possible at some hours", 0, 0))
         IN  IF fp = "score" THEN AddScore(s1, policy.score_fog_forecast)
             ELSE IF fp = "caution"
                  THEN [s1 EXCEPT !.score =
                          IF @ >= policy.band_caution_min
                          THEN @ ELSE policy.band_caution_min]
                  ELSE s1
    ELSE st

\* Variant: a wind reason already listed adds no score again
ForecastWind_OncePerReason(st, wind, gust, policy) ==
    IF st.raised THEN st
    ELSE IF ~IsNumber(wind) \/ ~IsNumber(gust) THEN Raise(st)
    ELSE LET strong == Msg("Strong winds forecast (a/b km/h).",
                           Fmt0(wind.v), Fmt0(gust.v))
             moderate == Msg("Moderate winds forecast (a/b km/h).",
                             Fmt0(wind.v), Fmt0(gust.v))
             listed(m) == \E i \in 1..Len(st.reasons) : st.reasons[i] = m
         IN  IF wind.v >= policy.wind_strong \/ gust.v >= policy.gust_strong
             THEN IF listed(strong) THEN AddReason(st, strong)
                  ELSE AddScore(AddReason(st, strong),
                                policy.score_wind_strong)
             ELSE IF wind.v >= policy.wind_mod \/ gust.v >= policy.gust_mod
             THEN IF listed(moderate) THEN AddReason(st, moderate)
                  ELSE AddScore(AddReason(st, moderate),
                                policy.score_wind_mod)
             ELSE st

ForecastWind(st, wind, gust, policy) ==
    IF st.raised THEN st
    ELSE IF ~IsNumber(wind) \/ ~IsNumber(gust) THEN Raise(st)
    ELSE IF wind.v >= policy.wind_strong \/ gust.v >= policy.gust_strong
    THEN AddScore(AddReason(st, Msg("Strong winds forecast (a/b km/h).",
                                    Fmt0(wind.v), Fmt0(gust.v))),
                  policy.score_wind_strong)
    ELSE IF wind.v >= policy.wind_mod \/ gust.v >= policy.gust_mod
    THEN AddScore(AddReason(st, Msg("Moderate winds forecast (a/b km/h).",
                                    Fmt0(wind.v), Fmt0(gust.v))),
                  policy.score_wind_mod)
    ELSE st

ForecastPrecip(st, precip, policy) ==
    IF st.raised THEN st
    ELSE IF precip.v >= policy.precip_heavy
    THEN AddScore(AddReason(st, Msg("Heavy rain forecast (a mm/hr).",
                                    Fmt1(precip.v), 0)),
                  policy.score_precip_heavy)
    ELSE IF precip.v >= policy.precip_mod
    THEN AddScore(AddReason(st, Msg("Moderate rain forecast (a mm/hr).",
                                    Fmt1(precip.v), 0)),
                  policy.score_precip_mod)
    ELSE st

\* One iteration of `for h in hourly` that does not take the break
ForecastHour(st, h, policy, fp) ==
    LET code == Get(h, "weather_code")
        wind == OrZero(Get(h, "wind_speed_10m_kmh"))
        gust == OrZero(Get(h, "wind_gusts_10m_kmh"))
        precip == PrecipSum(Get(h, "precipitation_mm"), Get(h, "rain_mm"))
    IN  IF ~IsNumber(precip) THEN Raise(st)
        ELSE ForecastPrecip(
               ForecastWind(ForecastFog(st, code, policy, fp),
                            wind, gust, policy),
               precip, policy)

\* `if policy.thunderstorm_hard_stop and code in (95, 96, 99)`, reached
\* only after the hour's precipitation sum was computed
HardStop(h, policy) ==
    /\ IsNumber(PrecipSum(Get(h, "precipitation_mm"), Get(h, "rain_mm")))
    /\ policy.thunderstorm_hard_stop
    /\ CodeIn(Get(h, "weather_code"), ThunderCodes)

\* Variant: the hard stop does not leave the loop
RECURSIVE ScanHours_NoBreak(_, _, _, _, _)
ScanHours_NoBreak(hourly, i, st, policy, fp) ==
    IF i > Len(hourly) \/ st.raised THEN st
    ELSE LET s0 == [st EXCEPT !.hours = i]
         IN  IF HardStop(hourly[i], policy)
             THEN ScanHours_NoBreak(hourly, i + 1,
                    [AddReason(s0,
                       Msg("Thunderstorm forecast (lightning risk).", 0, 0))
                       EXCEPT !.hard_unsafe = TRUE],
                    policy, fp)
             ELSE ScanHours_NoBreak(hourly, i + 1,
                                    ForecastHour(s0, hourly[i], policy, fp),
                                    policy, fp)

\* The loop over the hours, from hour i on
RECURSIVE ScanHours(_, _, _, _, _)
ScanHours(hourly, i, st, policy, fp) ==
    IF i > Len(hourly) \/ st.raised THEN st
    ELSE LET s0 == [st EXCEPT !.hours = i]
         IN  IF HardStop(hourly[i], policy)
             THEN [AddReason(s0, Msg("Thunderstorm forecast (lightning risk).",
                                     0, 0))
                     EXCEPT !.hard_unsafe = TRUE]
             ELSE ScanHours(hourly, i + 1,
                            ForecastHour(s0, hourly[i], policy, fp),
                            policy, fp)

ForecastWaves(st, wave_h, policy) ==
    IF st.raised THEN st
    ELSE IF IsNumber(wave_h)
    THEN IF wave_h.v > policy.wave_high
         THEN AddScore(AddReason(st, Msg("High waves up to a m.",
                                         Fmt2(wave_h.v), 0)),
                       policy.score_wave_high)
         ELSE IF wave_h.v > policy.wave_elevated
         THEN AddScore(AddReason(st, Msg("Elevated waves up to a m.",
                                         Fmt2(wave_h.v), 0)),
                       policy.score_wave_elevated)
         ELSE IF wave_h.v > policy.wave_moderate
         THEN AddScore(AddReason(st, Msg("Moderate waves up to a m.",
                                         Fmt2(wave_h.v), 0)),
                       policy.score_wave_moderate)
         ELSE st
    ELSE AddScore(AddReason(st, Msg("Wave height (forecast) unavailable", 0, 0)),
                  policy.score_missing_waves)

ForecastSwell(st, swell_h, policy) ==
    IF st.raised THEN st
    ELSE IF IsNumber(swell_h)
    THEN IF swell_h.v >= policy.swell_large
         THEN AddScore(AddReason(st, Msg("Swell up to a m (surge risk).",
                                         Fmt2(swell_h.v), 0)),
                       policy.score_swell_large)
         ELSE IF swell_h.v >= policy.swell_notable
         THEN AddScore(AddReason(st, Msg("Swell up to a m.",
                                         Fmt2(swell_h.v), 0)),
                       policy.score_swell_notable)
         ELSE st
    ELSE st

\* forecast.get("hourly", []) or []
Hourly(forecast) ==
    IF "hourly" \in DOMAIN forecast THEN forecast.hourly ELSE <<>>

\* The early return for an empty hourly sequence
NoHourly ==
    [ raised |-> FALSE, status |-> "Unknown", score |-> <<>>,
      reasons |-> <<Msg("No hourly forecast available.", 0, 0)>>,
      tips |-> <<>> ]

\* The locals of assess_forecast when it reaches a return statement
ForecastLocals(forecast, policy, fp) ==
    LET hourly == Hourly(forecast)
        marine == Section(forecast, "marine_daily")
    IN  IF Len(hourly) = 0 THEN Locals0
        ELSE ForecastSwell(
               ForecastWaves(ScanHours(hourly, 1, Locals0, policy, fp),
                             Get(marine, "wave_height_max_m"), policy),
               Get(marine, "swell_wave_height_max_m"), policy)

\* Variant: no early return, the marine rules run on an empty scan
assess_forecast_NoEarlyReturn(forecast, policy, fp) ==
    Return(
      ForecastSwell(
        ForecastWaves(ScanHours(Hourly(forecast), 1, Locals0, policy, fp),
                      Get(Section(forecast, "marine_daily"),
                          "wave_height_max_m"), policy),
        Get(Section(forecast, "marine_daily"), "swell_wave_height_max_m"),
        policy),
      policy)

assess_forecast(forecast, policy, fp) ==
    IF Len(Hourly(forecast)) = 0 THEN NoHourly
    ELSE Return(ForecastLocals(forecast, policy, fp), policy)

--------------------------------------------------------------------------
(* Inputs of the engine *)

Weather(c, w, g, p, r, t) ==
    [ weather_code |-> c, wind_speed_10m_kmh |-> w, wind_gusts_10m_kmh |-> g,
      precipitation_mm |-> p, rain_mm |-> r, temperature_2m_c |-> t ]

Marine(wh, sh, sp) ==
    [ wave_height_m |-> wh, swell_wave_height_m |-> sh,
      swell_wave_period_s |-> sp ]

CodeValues == {None} \cup {Num(c) : c \in {3, 45, 48, 95, 96, 99}}

WindValues == {None, Num(20000), Num(25000), Num(30000), Str}

GustValues == {None, Num(35000), Num(45000)}

PrecipValues == {None, Num(2000), Num(5000)}

RainValues == {None, Num(3000)}

WaveValues ==
    {None, Num(1000), Num(1200), Num(1500), Num(2000), Num(2500), Str}

SwellValues == {None, Num(1000), Num(1500), Num(2000), Str}

PeriodValues == {None, Num(10000)}

TempValues == {None, Num(15000)}

WeatherSections ==
    { Weather(c, w, g, p, r, t) :
        c \in CodeValues, w \in WindValues, g \in GustValues,
        p \in PrecipValues, r \in RainValues, t \in TempValues }

MarineSections ==
    { Marine(wh, sh, sp) :
        wh \in WaveValues, sh \in SwellValues, sp \in PeriodValues }

\* The fixed scenario with the keys of the provider client's reading
\* (divewise_weather.py, _parse_current_weather / _parse_current_marine)
ScenarioReading ==
    [ weather |-> [ weather_code |-> Num(3),
                    wind_speed_10m_kmh |-> Num(25000),
                    wind_gusts_10m_kmh |-> Num(20000),
                    precipitation_mm |-> Num(0), rain_mm |-> Num(0) ],
      marine |-> [ wave_height_m |-> Num(1200) ] ]

\* The same scenario with the keys wind_speed_kmh / wind_gusts_kmh
ScenarioReadingShortKeys ==
    [ weather |-> [ weather_code |-> Num(3),
                    wind_speed_kmh |-> Num(25000),
                    wind_gusts_kmh |-> Num(20000),
                    precipitation_mm |-> Num(0), rain_mm |-> Num(0) ],
      marine |-> [ wave_height_m |-> Num(1200) ] ]

Readings ==
    { [weather |-> wx, marine |-> sea] :
        wx \in WeatherSections, sea \in MarineSections }
    \cup { [weather |-> wx] : wx \in WeatherSections }
    \cup { ScenarioReading, ScenarioReadingShortKeys, EmptyDict }

Hour(c, w, g, p, r) ==
    [ weather_code |-> c, wind_speed_10m_kmh |-> w, wind_gusts_10m_kmh |-> g,
      precipitation_mm |-> p, rain_mm |-> r ]

HourValues ==
    { Hour(c, w, None, None, None) :
        c \in {None, Num(45), Num(95)}, w \in {None, Num(25000)} }
    \cup { Hour(None, Num(24600), None, None, None),
           Hour(None, Num(30000), Num(45000), Num(5000), None),
           Hour(None, None, None, Num(2000), None),
           Hour(None, Str, None, None, None),
           Hour(Num(99), Str, None, None, None) }

HourlySeqs == UNION { [1..n -> HourValues] : n \in 0..MaxHours }

MarineDaily(wh, sh) ==
    [ wave_height_max_m |-> wh, swell_wave_height_max_m |-> sh ]

MarineDailies ==
    { MarineDaily(wh, sh) :
        wh \in {None, Num(1000), Num(2500)}, sh \in {None, Num(2000)} }

Forecasts ==
    { [hourly |-> hs, marine_daily |-> m] :
        hs \in HourlySeqs, m \in MarineDailies }
    \cup { [hourly |-> hs] : hs \in HourlySeqs }
    \cup { [marine_daily |-> m] : m \in MarineDailies }

--------------------------------------------------------------------------
(* Direct calls of the engine *)

NoVerdict ==
    [ raised |-> FALSE, status |-> "none", score |-> <<>>,
      reasons |-> <<>>, tips |-> <<>> ]

NoRequest == [ endpoint |-> "none", include_marine |-> FALSE,
               date |-> "none" ]

\* One call of RiskEngine.assess_realtime
CallRealtime(reading, policy, fp) ==
    LET st == RealtimeLocals(reading, policy, fp)
    IN  /\ reasons' = st.reasons
        /\ tips' = st.tips
        /\ hours' = st.hours
        /\ verdict' = assess_realtime(reading, policy, fp)

\* One call of RiskEngine.assess_forecast
CallForecast(forecast, policy, fp) ==
    LET st == ForecastLocals(forecast, policy, fp)
    IN  /\ reasons' = st.reasons
        /\ tips' = st.tips
        /\ hours' = st.hours
        /\ verdict' = assess_forecast(forecast, policy, fp)

Init ==
    /\ pc = "call"
    /\ call \in {"realtime", "forecast"}
    /\ input \in (IF call = "realtime" THEN Readings ELSE Forecasts)
    /\ fog_policy \in FogPolicy
    /\ reasons = <<>>
    /\ tips = <<>>
    /\ hours = 0
    /\ verdict = NoVerdict
    /\ req = NoRequest
    /\ fetch = "none"
    /\ http = 0
    /\ engine_calls = 0

AssessRealtime ==
    /\ pc = "call"
    /\ call = "realtime"
    /\ CallRealtime(input, REALTIME_POLICY, fog_policy)
    /\ pc' = "done"
    /\ UNCHANGED <<call, input, fog_policy, req, fetch, http, engine_calls>>

AssessForecast ==
    /\ pc = "call"
    /\ call = "forecast"
    /\ CallForecast(input, FORECAST_POLICY, fog_policy)
    /\ pc' = "done"
    /\ UNCHANGED <<call, input, fog_policy, req, fetch, http, engine_calls>>

Next == AssessRealtime \/ AssessForecast

Spec == Init /\ [][Next]_vars

--------------------------------------------------------------------------
(* The Open-Meteo client: DiveWiseWeather *)

MaxTimes == 2

\* What requests.get(...) followed by r.json() can produce
Response(kind, status, body) == [kind |-> kind, status |-> status, body |-> body]

ErrorPayload == [error |-> TRUE, reason |-> Str]

\* The result of a call: an exception (OpenMeteoError), None, or the data
Raised == [raised |-> TRUE, some |-> FALSE, data |-> EmptyDict]

ReturnNone == [raised |-> FALSE, some |-> FALSE, data |-> EmptyDict]

ReturnData(d) == [raised |-> FALSE, some |-> TRUE, data |-> d]

\* Variant: every failure is swallowed as if allow_fail were set
_get_json_Swallow(resp, allow_fail) ==
    IF resp.kind = "exception" THEN ReturnNone
    ELSE IF resp.status # 200 THEN ReturnNone
    ELSE IF resp.kind = "badjson" THEN ReturnNone
    ELSE IF resp.kind = "null" THEN ReturnNone
    ELSE IF "reason" \in DOMAIN resp.body THEN ReturnNone
    ELSE ReturnData(resp.body)

\* kind "exception": requests.get raised a RequestException;
\* kind "badjson": r.json() raised (a RequestException subclass);
\* kind "null": the body is the JSON value null; kind "json": a JSON object
_get_json(resp, allow_fail) ==
    IF resp.kind = "exception"
    THEN IF allow_fail THEN ReturnNone ELSE Raised
    ELSE IF resp.status # 200
    THEN IF allow_fail THEN ReturnNone ELSE Raised
    ELSE IF resp.kind = "badjson"
    THEN IF allow_fail THEN ReturnNone ELSE Raised
    ELSE IF resp.kind = "null" THEN ReturnNone
    ELSE IF "reason" \in DOMAIN resp.body
    THEN IF allow_fail THEN ReturnNone ELSE Raised
    ELSE ReturnData(resp.body)

_parse_current_weather(payload) ==
    LET current == Section(payload, "current")
    IN  [ temperature_2m_c |-> Get(current, "temperature_2m"),
          precipitation_mm |-> Get(current, "precipitation"),
          rain_mm |-> Get(current, "rain"),
          wind_speed_10m_kmh |-> Get(current, "wind_speed_10m"),
          wind_gusts_10m_kmh |-> Get(current, "wind_gusts_10m"),
          weather_code |-> Get(current, "weather_code") ]

_parse_current_marine(payload) ==
    LET current == Section(payload, "current")
    IN  [ wave_height_m |-> Get(current, "wave_height"),
          swell_wave_height_m |-> Get(current, "swell_wave_height"),
          swell_wave_period_s |-> Get(current, "swell_wave_period") ]

\* hourly.get(name) or []
Arr(hourly, name) == IF name \in DOMAIN hourly THEN hourly[name] ELSE <<>>

\* val(name, t): arr[t] if t < len(arr) else None  (i is t + 1)
Val(hourly, name, i) ==
    IF i <= Len(Arr(hourly, name)) THEN Arr(hourly, name)[i] ELSE None

\* safe_max: the largest numeric entry, None when there is none
SafeMax(a) ==
    LET vals == { a[i].v : i \in { j \in 1..Len(a) : IsNumber(a[j]) } }
    IN  IF vals = {} THEN None
        ELSE Num(CHOOSE m \in vals : \A x \in vals : x <= m)

_aggregate_marine_day(payload) ==
    LET hourly == Section(payload, "hourly")
    IN  [ wave_height_max_m |-> SafeMax(Arr(hourly, "wave_height")),
          swell_wave_height_max_m |->
              SafeMax(Arr(hourly, "swell_wave_height")) ]

\* A timestamp is the day it falls on; the requested day is TargetDay
TargetDay == 0

RECURSIVE SelectFrom(_, _, _)
SelectFrom(hourly, i, result) ==
    IF i > Len(Arr(hourly, "time")) THEN result
    ELSE IF Arr(hourly, "time")[i] = TargetDay
    THEN SelectFrom(hourly, i + 1,
           Append(result,
             [ precipitation_mm |-> Val(hourly, "precipitation", i),
               rain_mm |-> Val(hourly, "rain", i),
               wind_speed_10m_kmh |-> Val(hourly, "wind_speed_10m", i),
               wind_gusts_10m_kmh |-> Val(hourly, "wind_gusts_10m", i),
               weather_code |-> Val(hourly, "weather_code", i) ]))
    ELSE SelectFrom(hourly, i + 1, result)

_select_hourly_for_date(payload) ==
    SelectFrom(Section(payload, "hourly"), 1, <<>>)

--------------------------------------------------------------------------
(* Provider responses *)

SeqsUpTo(S, n) == UNION { [1..k -> S] : k \in 0..n }

CurrentWeatherPayloads ==
    { [current |-> [weather_code |-> c, wind_speed_10m |-> w,
                    precipitation |-> p]] :
        c \in {None, Num(3), Num(95)},
        w \in {None, Num(25000), Num(30000)},
        p \in {None, Num(5000)} }

CurrentMarinePayloads ==
    { [current |-> [wave_height |-> w, swell_wave_height |-> s,
                    swell_wave_period |-> Num(10000)]] :
        w \in {None, Num(2500)}, s \in {None, Num(2000)} }

HourlyWeatherPayloads ==
    { [hourly |-> [time |-> ts, weather_code |-> cs, wind_speed_10m |-> ws]] :
        ts \in SeqsUpTo({TargetDay, TargetDay + 1}, MaxTimes),
        cs \in SeqsUpTo({Num(3), Num(95)}, MaxTimes),
        ws \in SeqsUpTo({Num(25000)}, MaxTimes) }

HourlyMarinePayloads ==
    { [hourly |-> [wave_height |-> a]] :
        a \in SeqsUpTo({None, Num(1200), Num(2500)}, MaxTimes) }

Responses(payloads) ==
    { Response("exception", 0, EmptyDict),
      Response("json", 500, EmptyDict),
      Response("badjson", 200, EmptyDict),
      Response("null", 200, EmptyDict),
      Response("json", 200, ErrorPayload) }
    \cup { Response("json", 200, p) : p \in payloads }

\* What the provider did on the primary fetch, read off the response itself
FetchKind(resp) ==
    IF resp.kind = "exception" THEN "exception"
    ELSE IF resp.status # 200 THEN "non200"
    ELSE IF resp.kind = "badjson" THEN "badjson"
    ELSE IF resp.kind = "null" THEN "null"
    ELSE IF "reason" \in DOMAIN resp.body THEN "error_payload"
    ELSE "ok"

Requests ==
    { [endpoint |-> e, include_marine |-> m, date |-> d] :
        e \in {"realtime", "forecast"}, m \in BOOLEAN,
        d \in {"YYYY-MM-DD", "YYYYMMDD"} }

--------------------------------------------------------------------------
(* The request handlers realtime(req) and forecast(req) *)

ApiInit ==
    /\ pc = "request"
    /\ req \in Requests
    /\ call = req.endpoint
    /\ fog_policy \in FogPolicy
    /\ input = EmptyDict
    /\ reasons = <<>>
    /\ tips = <<>>
    /\ hours = 0
    /\ verdict = NoVerdict
    /\ fetch = "none"
    /\ http = 0
    /\ engine_calls = 0

\* client.get_realtime up to the weather fetch; OpenMeteoError -> 502.
\* A None payload makes _parse_current_weather raise AttributeError -> 500.
RealtimeFetchWeather ==
    /\ pc = "request"
    /\ req.endpoint = "realtime"
    /\ \E resp \in Responses(CurrentWeatherPayloads) :
         LET r == _get_json(resp, FALSE)
         IN  /\ fetch' = FetchKind(resp)
             /\ IF r.raised
                THEN /\ http' = 502
                     /\ pc' = "done"
                     /\ input' = input
                ELSE IF ~r.some
                THEN /\ http' = 500
                     /\ pc' = "done"
                     /\ input' = input
                ELSE /\ http' = http
                     /\ pc' = IF req.include_marine THEN "marine" ELSE "assess"
                     /\ input' = [weather |-> _parse_current_weather(r.data)]
    /\ UNCHANGED <<call, fog_policy, reasons, tips, hours, verdict, req,
                   engine_calls>>

\* the marine fetch of get_realtime (allow_fail=True)
RealtimeFetchMarine ==
    /\ pc = "marine"
    /\ req.endpoint = "realtime"
    /\ \E resp \in Responses(CurrentMarinePayloads) :
         LET r == _get_json(resp, TRUE)
         IN  input' = IF r.some
                      THEN [weather |-> input.weather,
                            marine |-> _parse_current_marine(r.data)]
                      ELSE input
    /\ pc' = "assess"
    /\ UNCHANGED <<call, fog_policy, reasons, tips, hours, verdict, req,
                   fetch, http, engine_calls>>

RealtimeRespond ==
    /\ pc = "assess"
    /\ req.endpoint = "realtime"
    /\ CallRealtime(input, REALTIME_POLICY, fog_policy)
    /\ engine_calls' = engine_calls + 1
    /\ http' = IF assess_realtime(input, REALTIME_POLICY, fog_policy).raised
               THEN 500 ELSE 200
    /\ pc' = "done"
    /\ UNCHANGED <<call, input, fog_policy, req, fetch>>

\* client.get_forecast_for_date up to the weather fetch; strptime raises
\* ValueError -> 400 before any fetch; OpenMeteoError -> 502
ForecastFetchWeather ==
    /\ pc = "request"
    /\ req.endpoint = "forecast"
    /\ IF req.date # "YYYY-MM-DD"
       THEN /\ http' = 400
            /\ pc' = "done"
            /\ UNCHANGED <<input, fetch>>
       ELSE \E resp \in Responses(HourlyWeatherPayloads) :
              LET r == _get_json(resp, FALSE)
              IN  /\ fetch' = FetchKind(resp)
                  /\ IF r.raised
                     THEN /\ http' = 502
                          /\ pc' = "done"
                          /\ input' = input
                     ELSE IF ~r.some
                     THEN /\ http' = 500
                          /\ pc' = "done"
                          /\ input' = input
                     ELSE /\ http' = http
                          /\ pc' = IF req.include_marine
                                   THEN "marine" ELSE "assess"
                          /\ input' =
                               [hourly |-> _select_hourly_for_date(r.data)]
    /\ UNCHANGED <<call, fog_policy, reasons, tips, hours, verdict, req,
                   engine_calls>>

ForecastFetchMarine ==
    /\ pc = "marine"
    /\ req.endpoint = "forecast"
    /\ \E resp \in Responses(HourlyMarinePayloads) :
         LET r == _get_json(resp, TRUE)
         IN  input' = IF r.some
                      THEN [hourly |-> input.hourly,
                            marine_daily |-> _aggregate_marine_day(r.data)]
                      ELSE input
    /\ pc' = "assess"
    /\ UNCHANGED <<call, fog_policy, reasons, tips, hours, verdict, req,
                   fetch, http, engine_calls>>

ForecastRespond ==
    /\ pc = "assess"
    /\ req.endpoint = "forecast"
    /\ CallForecast(input, FORECAST_POLICY, fog_policy)
    /\ engine_calls' = engine_calls + 1
    /\ http' = IF assess_forecast(input, FORECAST_POLICY, fog_policy).raised
               THEN 500 ELSE 200
    /\ pc' = "done"
    /\ UNCHANGED <<call, input, fog_policy, req, fetch>>

ApiNext ==
    \/ RealtimeFetchWeather
    \/ RealtimeFetchMarine
    \/ RealtimeRespond
    \/ ForecastFetchWeather
    \/ ForecastFetchMarine
    \/ ForecastRespond

ApiSpec == ApiInit /\ [][ApiNext]_vars

--------------------------------------------------------------------------
(* Properties *)

Done(c) == pc = "done" /\ call = c /\ verdict.status # "none"

\* The Reading / hour type of the interface: each additive field is a
\* number or absent
Typed(d) ==
    \A k \in {"wind_speed_10m_kmh", "wind_gusts_10m_kmh",
              "precipitation_mm", "rain_mm"} : Get(d, k).t # "str"

TypedPrecip(d) ==
    \A k \in {"precipitation_mm", "rain_mm"} : Get(d, k).t # "str"

Severity(status) ==
    IF status = "Safe" THEN 0 ELSE IF status = "Caution" THEN 1 ELSE 2

NoDuplicates(seq) ==
    \A i, j \in 1..Len(seq) : seq[i] = seq[j] => i = j

Elements(seq) == { seq[i] : i \in 1..Len(seq) }

FirstIndex(seq, x) ==
    CHOOSE i \in 1..Len(seq) :
        seq[i] = x /\ \A j \in 1..(i - 1) : seq[j] # x

\* out lists each string of raw once, ordered by first occurrence in raw
FirstOccurrences(out, raw) ==
    /\ NoDuplicates(out)
    /\ Elements(out) = Elements(raw)
    /\ \A i, j \in 1..Len(out) :
         i < j => FirstIndex(raw, out[i]) < FirstIndex(raw, out[j])

ThunderHours(hourly) ==
    { i \in 1..Len(hourly) : CodeIn(Get(hourly[i], "weather_code"), ThunderCodes) }

FirstThunder(hourly) ==
    CHOOSE k \in ThunderHours(hourly) : \A j \in ThunderHours(hourly) : k <= j

\* C1: under the default policy a reading with weather code 95, 96 or 99
\* gets status Unsafe and score 100 from assess_realtime, whatever the other
\* fields (numbers or absent) and whatever the fog_policy.
C1_ThunderstormUnsafe ==
    ( /\ Done("realtime")
      /\ CodeIn(Get(Section(input, "weather"), "weather_code"), ThunderCodes)
      /\ Typed(Section(input, "weather")) )
    => ( /\ ~verdict.raised
         /\ verdict.status = "Unsafe"
         /\ verdict.score = <<100>> )

C1_Witness ==
    /\ Done("realtime")
    /\ Get(Section(input, "weather"), "weather_code") = Num(96)
    /\ Get(Section(input, "weather"), "wind_speed_10m_kmh") = Num(30000)
    /\ Get(Section(input, "marine"), "wave_height_m") = Num(2500)
    /\ fog_policy = "caution"
    /\ verdict.score = <<100>>

\* C2: every verdict's score is an integer in 0..100, or null exactly when
\* the status is Unknown.
C2_ScoreRange ==
    (pc = "done" /\ verdict.status # "none" /\ ~verdict.raised)
    => ( /\ (verdict.score = <<>>) <=> (verdict.status = "Unknown")
         /\ verdict.score # <<>>
              => (verdict.score[1] >= 0 /\ verdict.score[1] <= 100) )

\* C3: in assess_forecast with the hard stop enabled, when hour k is the
\* first hour with code 95, 96 or 99 the scan stops at hour k: the verdict
\* is Unsafe with score 100 and is the verdict of the forecast cut after
\* hour k, so no later hour contributes a reason, whatever its values
\* (a string included; the hours before k hold numbers or nothing).
C3_HardStopEndsScan ==
    ( /\ Done("forecast")
      /\ ThunderHours(Hourly(input)) # {}
      /\ \A j \in 1..(FirstThunder(Hourly(input)) - 1) :
           Typed(Hourly(input)[j])
      /\ TypedPrecip(Hourly(input)[FirstThunder(Hourly(input))]) )
    => LET k == FirstThunder(Hourly(input))
           cut == [input EXCEPT !.hourly = SubSeq(@, 1, k)]
       IN  /\ ~verdict.raised
           /\ verdict.status = "Unsafe"
           /\ verdict.score = <<100>>
           /\ hours = k
           /\ verdict = assess_forecast(cut, FORECAST_POLICY, fog_policy)
           /\ Len(reasons) > 0
           /\ \A i \in 1..Len(reasons) :
                reasons[i].k = "Thunderstorm forecast (lightning risk)."
                => \A j \in (i + 1)..Len(reasons) :
                     reasons[j].k \notin
                       { "Fog possible at some hours",
                         "Strong winds forecast (a/b km/h).",
                         "Moderate winds forecast (a/b km/h).",
                         "Heavy rain forecast (a mm/hr).",
                         "Moderate rain forecast (a mm/hr)." }

C3_Witness ==
    /\ Done("forecast")
    /\ Len(Hourly(input)) = 3
    /\ Get(input.hourly[1], "wind_speed_10m_kmh") = Num(25000)
    /\ Get(input.hourly[2], "weather_code") = Num(95)
    /\ Get(input.hourly[3], "weather_code") = Num(45)
    /\ hours = 2
    /\ verdict.score = <<100>>

\* C4: assess_forecast on an empty or missing hourly sequence returns
\* exactly Unknown / null / ["No hourly forecast available."] / [] and no
\* rule runs, whatever the marine_daily summary holds.
C4_EmptyHourlyUnknown ==
    (Done("forecast") /\ Len(Hourly(input)) = 0)
    => ( /\ ~verdict.raised
         /\ verdict.status = "Unknown"
         /\ verdict.score = <<>>
         /\ verdict.reasons = <<Msg("No hourly forecast available.", 0, 0)>>
         /\ verdict.tips = <<>>
         /\ reasons = <<>>
         /\ hours = 0 )

C4_Witness ==
    /\ Done("forecast")
    /\ "hourly" \in DOMAIN input
    /\ Len(input.hourly) = 0
    /\ Get(Section(input, "marine_daily"), "wave_height_max_m") = Num(2500)
    /\ verdict.status = "Unknown"

C6_NeverRaises ==
    pc = "done" => ~verdict.raised

\* Wind speeds at or above the strong threshold tried against a reading
StrongWinds == {30000, 30500, 60000}

ModerateTier(wx) ==
    /\ Typed(wx)
    /\ IsNumber(Get(wx, "wind_speed_10m_kmh"))
    /\ Get(wx, "wind_speed_10m_kmh").v >= REALTIME_POLICY.wind_mod
    /\ Get(wx, "wind_speed_10m_kmh").v < REALTIME_POLICY.wind_strong
    /\ OrZero(Get(wx, "wind_gusts_10m_kmh")).v < REALTIME_POLICY.gust_strong

WithWind(reading, w) ==
    [reading EXCEPT !.weather.wind_speed_10m_kmh = Num(w)]

\* C7 (amended): for two readings that differ only in wind speed, one in
\* the moderate tier and one at or above the strong threshold, the second
\* has a status that is not less severe, and a strictly higher score unless
\* the weather code is 95, 96 or 99, where both scores are 100.
C7_WindMonotone ==
    (Done("realtime") /\ ModerateTier(Section(input, "weather")))
    => \A w \in StrongWinds :
         LET v2 == assess_realtime(WithWind(input, w), REALTIME_POLICY,
                                   fog_policy)
             thunder == CodeIn(Get(input.weather, "weather_code"),
                               ThunderCodes)
         IN  /\ ~verdict.raised /\ ~v2.raised
             /\ Severity(v2.status) >= Severity(verdict.status)
             /\ ~thunder => v2.score[1] > verdict.score[1]
             /\ thunder => (v2.score = <<100>> /\ verdict.score = <<100>>)

C7_Witness ==
    /\ Done("realtime")
    /\ ModerateTier(Section(input, "weather"))
    /\ Get(input.weather, "weather_code") = Num(3)
    /\ verdict.status = "Caution"
    /\ assess_realtime(WithWind(input, 30000), REALTIME_POLICY,
                       fog_policy).status = "Unsafe"

\* C7 as stated: the second reading always has a strictly higher score.
C7_WindStrictlyHigher ==
    (Done("realtime") /\ ModerateTier(Section(input, "weather")))
    => \A w \in StrongWinds :
         LET v2 == assess_realtime(WithWind(input, w), REALTIME_POLICY,
                                   fog_policy)
         IN  /\ v2.score[1] > verdict.score[1]
             /\ Severity(v2.status) >= Severity(verdict.status)

\* C8: in every verdict reasons and tips hold no string twice, and hold the
\* strings the rules appended in the order of their first occurrence.
C8_DedupeFirstOccurrence ==
    (pc = "done" /\ verdict.status # "none" /\ ~verdict.raised)
    => /\ NoDuplicates(verdict.reasons)
       /\ NoDuplicates(verdict.tips)
       /\ verdict.status # "Unknown"
            => /\ FirstOccurrences(verdict.reasons, reasons)
               /\ FirstOccurrences(verdict.tips, tips)

C8_Witness ==
    /\ Done("forecast")
    /\ ~verdict.raised
    /\ Len(reasons) = 4
    /\ reasons[1] = reasons[3]
    /\ reasons[1] # reasons[2]
    /\ Len(verdict.reasons) = 3

\* C9: in the /realtime and /forecast flows a failed primary fetch (network
\* exception, non-200, undecodable body, provider error payload) ends the
\* request with 502 and the engine is never invoked; an Unknown verdict
\* exists only after a successful fetch whose hourly selection is empty.
C9_UpstreamFailureIs502 ==
    /\ fetch \in {"exception", "non200", "badjson", "error_payload"}
         => ( /\ pc = "done"
              /\ http = 502
              /\ engine_calls = 0
              /\ verdict = NoVerdict )
    /\ verdict.status = "Unknown"
         => ( /\ fetch = "ok"
              /\ req.endpoint = "forecast"
              /\ http = 200
              /\ engine_calls = 1
              /\ Len(Hourly(input)) = 0 )

C9_Witness ==
    /\ req.endpoint = "forecast"
    /\ fetch = "error_payload"
    /\ pc = "done"
    /\ http = 502

\* An hour in which the moderate-wind rule fires and no other hourly rule
ModerateWindOnly(h) ==
    LET wind == OrZero(Get(h, "wind_speed_10m_kmh"))
        gust == OrZero(Get(h, "wind_gusts_10m_kmh"))
    IN  /\ Typed(h)
        /\ ~CodeIn(Get(h, "weather_code"), ThunderCodes \cup FogCodes)
        /\ wind.v < FORECAST_POLICY.wind_strong
        /\ gust.v < FORECAST_POLICY.gust_strong
        /\ (wind.v >= FORECAST_POLICY.wind_mod
              \/ gust.v >= FORECAST_POLICY.gust_mod)
        /\ PrecipSum(Get(h, "precipitation_mm"), Get(h, "rain_mm")).v
             < FORECAST_POLICY.precip_mod

ModerateWindMsg(h) ==
    Msg("Moderate winds forecast (a/b km/h).",
        Fmt0(OrZero(Get(h, "wind_speed_10m_kmh")).v),
        Fmt0(OrZero(Get(h, "wind_gusts_10m_kmh")).v))

\* Score of the marine_daily rules alone
MarineScore(forecast) ==
    ForecastSwell(
      ForecastWaves(Locals0,
                    Get(Section(forecast, "marine_daily"),
                        "wave_height_max_m"), FORECAST_POLICY),
      Get(Section(forecast, "marine_daily"), "swell_wave_height_max_m"),
      FORECAST_POLICY).score

NoFogCode(d) ==
    IF CodeIn(Get(d, "weather_code"), FogCodes)
    THEN [d EXCEPT !.weather_code = None] ELSE d

NoFogReading(reading) == [reading EXCEPT !.weather = NoFogCode(@)]

NoFogForecast(forecast) ==
    [forecast EXCEPT !.hourly = [i \in 1..Len(@) |-> NoFogCode(@[i])]]

\* Hours the loop evaluates in full: those before the first thunderstorm hour
ScannedHours(hourly) ==
    IF ThunderHours(hourly) = {} THEN 1..Len(hourly)
    ELSE 1..(FirstThunder(hourly) - 1)

FogHours(hourly) ==
    { i \in ScannedHours(hourly) :
        CodeIn(Get(hourly[i], "weather_code"), FogCodes) }

\* Every hour the loop reads holds numbers or nothing
ScanTyped(hourly) ==
    /\ \A i \in ScannedHours(hourly) : Typed(hourly[i])
    /\ ThunderHours(hourly) # {} => TypedPrecip(hourly[FirstThunder(hourly)])

\* The fog rule was evaluated in the call that produced the verdict
FogEvaluated ==
    \/ /\ Done("realtime")
       /\ Typed(Section(input, "weather"))
       /\ CodeIn(Get(Section(input, "weather"), "weather_code"), FogCodes)
    \/ /\ Done("forecast")
       /\ ScanTyped(Hourly(input))
       /\ FogHours(Hourly(input)) # {}

\* The verdict of the same call on the input without its fog codes
NoFogVerdict ==
    IF call = "realtime"
    THEN assess_realtime(NoFogReading(input), REALTIME_POLICY, fog_policy)
    ELSE assess_forecast(NoFogForecast(input), FORECAST_POLICY, fog_policy)

HasReason(seq, k) == \E i \in 1..Len(seq) : seq[i].k = k

FogReason ==
    IF call = "realtime" THEN "Fog reduces surface visibility"
    ELSE "Fog possible at some hours"

\* C11: with fog_policy "caution" an evaluated fog code raises the running
\* score to at least band_caution_min as a floor: the verdict's score is at
\* least band_caution_min and at most band_caution_min above the score
\* without the fog, it equals the score without the fog when the running
\* score had already reached the minimum, and the status is never Safe.
\* With fog_policy "warn" the fog code adds its reason and leaves score and
\* status as they are without it.
C11_FogCautionFloor ==
    FogEvaluated =>
      LET base == NoFogVerdict
          min == SafetyPolicy.band_caution_min
          hourly == Hourly(input)
          first == CHOOSE k \in FogHours(hourly) :
                     \A j \in FogHours(hourly) : k <= j
          before == ScanHours(SubSeq(hourly, 1, first - 1), 1, Locals0,
                              FORECAST_POLICY, fog_policy).score
      IN  /\ ~verdict.raised
          /\ HasReason(verdict.reasons, FogReason)
          /\ fog_policy = "caution" =>
               /\ verdict.score[1] >= min
               /\ verdict.status # "Safe"
               /\ verdict.score[1] >= base.score[1]
               /\ verdict.score[1] <= base.score[1] + min
               /\ (call = "forecast" /\ before >= min)
                    => verdict.score = base.score
               /\ (call = "forecast" /\ before = 0
                     /\ ThunderHours(hourly) = {})
                    => verdict.score[1] = base.score[1] + min
          /\ fog_policy = "warn" =>
               /\ verdict.score = base.score
               /\ verdict.status = base.status

C11_Witness ==
    /\ Done("forecast")
    /\ fog_policy = "caution"
    /\ Len(Hourly(input)) = 2
    /\ Get(input.hourly[1], "wind_speed_10m_kmh") = Num(30000)
    /\ Get(input.hourly[2], "weather_code") = Num(45)
    /\ Get(Section(input, "marine_daily"), "wave_height_max_m") = Num(1000)
    /\ verdict.score = <<50>>
    /\ verdict.status = "Caution"

WindKinds ==
    {"Strong wind/gusts (a/b km/h).", "Moderate wind/gusts (a/b km/h)."}

PrecipKinds ==
    {"Heavy rain (a mm/hr) may reduce vis/runoff.", "Moderate rain (a mm/hr)."}

WaveKinds ==
    {"High waves (a m)", "Elevated waves (a m).", "Moderate waves (a m)."}

SwellKinds ==
    { "Large swell (a m @ bs).", "Notable swell (a m @ bs).",
      "Long-period swell (a m @ bs)" }

CountKinds(seq, kinds) ==
    Cardinality({ i \in 1..Len(seq) : seq[i].k \in kinds })

\* The weight the default policy attaches to a realtime reason
WeightOf(k) ==
    LET P == REALTIME_POLICY
    IN  IF k = "Strong wind/gusts (a/b km/h)." THEN P.score_wind_strong
        ELSE IF k = "Moderate wind/gusts (a/b km/h)." THEN P.score_wind_mod
        ELSE IF k = "Heavy rain (a mm/hr) may reduce vis/runoff."
             THEN P.score_precip_heavy
        ELSE IF k = "Moderate rain (a mm/hr)." THEN P.score_precip_mod
        ELSE IF k = "High waves (a m)" THEN P.score_wave_high
        ELSE IF k = "Elevated waves (a m)." THEN P.score_wave_elevated
        ELSE IF k = "Moderate waves (a m)." THEN P.score_wave_moderate
        ELSE IF k = "Wave height unavailable" THEN P.score_missing_waves
        ELSE IF k = "Large swell (a m @ bs)." THEN P.score_swell_large
        ELSE IF k = "Notable swell (a m @ bs)." THEN P.score_swell_notable
        ELSE IF k = "Long-period swell (a m @ bs)"
             THEN P.score_surge_long_period
        ELSE 0

RECURSIVE SumWeights(_)
SumWeights(seq) ==
    IF Len(seq) = 0 THEN 0 ELSE WeightOf(Head(seq).k) + SumWeights(Tail(seq))

\* C12: in assess_realtime a wave height equal to wave_high fires the
\* elevated tier, equal to wave_elevated the moderate tier, equal to
\* wave_moderate no tier; a wind, gust, precipitation or swell value equal
\* to a threshold fires that tier; each dimension fires at most one tier,
\* and without fog or thunderstorm the score is the sum of the fired weights.
C12_ThresholdBoundaries ==
    (Done("realtime") /\ Typed(Section(input, "weather")))
    => LET wx == Section(input, "weather")
           sea == Section(input, "marine")
           P == REALTIME_POLICY
           code == Get(wx, "weather_code")
           wind == OrZero(Get(wx, "wind_speed_10m_kmh")).v
           gust == OrZero(Get(wx, "wind_gusts_10m_kmh")).v
           precip == PrecipSum(Get(wx, "precipitation_mm"),
                               Get(wx, "rain_mm")).v
           wave == Get(sea, "wave_height_m")
           sh == Get(sea, "swell_wave_height_m")
           sp == Get(sea, "swell_wave_period_s")
           has(k) == HasReason(reasons, k)
       IN  /\ ~verdict.raised
           /\ wave = Num(P.wave_high)
                => has("Elevated waves (a m).") /\ ~has("High waves (a m)")
           /\ wave = Num(P.wave_elevated)
                => has("Moderate waves (a m).") /\ ~has("Elevated waves (a m).")
           /\ wave = Num(P.wave_moderate) => CountKinds(reasons, WaveKinds) = 0
           /\ (wind = P.wind_strong \/ gust = P.gust_strong)
                => has("Strong wind/gusts (a/b km/h).")
           /\ ((wind = P.wind_mod \/ gust = P.gust_mod)
                 /\ wind < P.wind_strong /\ gust < P.gust_strong)
                => has("Moderate wind/gusts (a/b km/h).")
           /\ precip = P.precip_heavy
                => has("Heavy rain (a mm/hr) may reduce vis/runoff.")
           /\ precip = P.precip_mod => has("Moderate rain (a mm/hr).")
           /\ (IsNumber(sh) /\ IsNumber(sp)) =>
                /\ sh.v = P.swell_large => has("Large swell (a m @ bs).")
                /\ sh.v = P.swell_notable => has("Notable swell (a m @ bs).")
                /\ (sh.v = 1000 /\ sp.v = P.long_period_s)
                     => has("Long-period swell (a m @ bs)")
           /\ CountKinds(reasons, WindKinds) <= 1
           /\ CountKinds(reasons, PrecipKinds) <= 1
           /\ CountKinds(reasons, WaveKinds \cup {"Wave height unavailable"}) <= 1
           /\ CountKinds(reasons, SwellKinds) <= 1
           /\ ~CodeIn(code, ThunderCodes \cup FogCodes)
                => verdict.score = <<SumWeights(reasons)>>

C12_Witness ==
    /\ Done("realtime")
    /\ Get(Section(input, "weather"), "wind_speed_10m_kmh") = Num(20000)
    /\ Get(Section(input, "weather"), "wind_gusts_10m_kmh") = Num(35000)
    /\ Get(Section(input, "weather"), "precipitation_mm") = Num(2000)
    /\ Get(Section(input, "weather"), "rain_mm") = None
    /\ Get(Section(input, "weather"), "weather_code") = Num(3)
    /\ Get(Section(input, "marine"), "wave_height_m") = Num(2000)
    /\ Get(Section(input, "marine"), "swell_wave_height_m") = Num(1000)
    /\ Get(Section(input, "marine"), "swell_wave_period_s") = Num(10000)
    /\ verdict.score = <<50>>

\* The reading with its swell fields removed
WithoutSwell(reading) ==
    [ weather |-> Section(reading, "weather"),
      marine |-> [ wave_height_m |->
                     Get(Section(reading, "marine"), "wave_height_m") ] ]

\* The reading with a flat sea in place of the wave height
WithFlatSea(reading) ==
    [ weather |-> Section(reading, "weather"),
      marine |-> [ wave_height_m |-> Num(0),
                   swell_wave_height_m |->
                     Get(Section(reading, "marine"), "swell_wave_height_m"),
                   swell_wave_period_s |->
                     Get(Section(reading, "marine"), "swell_wave_period_s") ] ]

\* C13: in assess_realtime, when the swell height or the swell period is
\* absent or not a number, no swell reason is appended and the verdict is
\* that of the reading without swell data, whatever the other value; when
\* the wave height is absent or not a number the missing-waves reason is
\* appended and the score is the missing-waves weight above that of the
\* same reading with a flat sea.
C13_SwellNeedsBothFields ==
    (Done("realtime") /\ Typed(Section(input, "weather")))
    => LET sea == Section(input, "marine")
           wave == Get(sea, "wave_height_m")
           sh == Get(sea, "swell_wave_height_m")
           sp == Get(sea, "swell_wave_period_s")
           P == REALTIME_POLICY
       IN  /\ (~IsNumber(sh) \/ ~IsNumber(sp)) =>
                /\ CountKinds(reasons, SwellKinds) = 0
                /\ verdict = assess_realtime(WithoutSwell(input), P, fog_policy)
           /\ ~IsNumber(wave) =>
                /\ HasReason(verdict.reasons, "Wave height unavailable")
                /\ RealtimeLocals(input, P, fog_policy).score
                     = RealtimeLocals(WithFlatSea(input), P, fog_policy).score
                       + P.score_missing_waves
                /\ ~CodeIn(Get(Section(input, "weather"), "weather_code"),
                           ThunderCodes)
                     => verdict.score[1]
                          = assess_realtime(WithFlatSea(input), P,
                                            fog_policy).score[1]
                            + P.score_missing_waves

C13_Witness ==
    /\ Done("realtime")
    /\ Get(Section(input, "marine"), "swell_wave_height_m") = Num(2000)
    /\ Get(Section(input, "marine"), "swell_wave_period_s") = None
    /\ Get(Section(input, "marine"), "wave_height_m") = None
    /\ "marine" \in DOMAIN input
    /\ verdict.score = <<5>>
    /\ Len(verdict.reasons) = 1

\* C14: under the default policy every verdict with a non-null score has
\* the status its reported score determines: Unsafe iff score >=
\* band_unsafe_min, Caution iff band_caution_min <= score < band_unsafe_min,
\* Safe iff score < band_caution_min; a hard stop reports 100 with Unsafe.
C14_StatusMatchesScore ==
    (pc = "done" /\ verdict.status # "none" /\ ~verdict.raised
       /\ verdict.score # <<>>)
    => LET sc == verdict.score[1]
           lo == SafetyPolicy.band_caution_min
           hi == SafetyPolicy.band_unsafe_min
       IN  /\ verdict.status \in {"Safe", "Caution", "Unsafe"}
           /\ (verdict.status = "Unsafe") <=> (sc >= hi)
           /\ (verdict.status = "Caution") <=> (sc >= lo /\ sc < hi)
           /\ (verdict.status = "Safe") <=> (sc < lo)
           /\ HasReason(reasons, IF call = "realtime"
                                 THEN "Thunderstorm in area (lightning risk)."
                                 ELSE "Thunderstorm forecast (lightning risk).")
                => (sc = 100 /\ verdict.status = "Unsafe")

C14_Witness ==
    /\ Done("realtime")
    /\ Len(reasons) = 1
    /\ reasons[1].k = "Thunderstorm in area (lightning risk)."
    /\ verdict.score = <<100>>
    /\ verdict.status = "Unsafe"

====
